---- MODULE Spec2Model ----
(***************************************************************************)
(* A model of the AIScribe task dispatcher (src/scribe.py), of its example *)
(* script (src/scribe.py, the __main__ block) and of the Firebase token    *)
(* check verify_token (src/main.py).                                       *)
(*                                                                         *)
(* Python values are records [kind, val]: kind "str" is a string, "None"   *)
(* is None, "raise" is an exception leaving the call (val names its type). *)
(***************************************************************************)
EXTENDS Integers, Sequences, FiniteSets, TLC

\* ------------------------------------------------------------------ bounds
\* Number of threads that call process() on the one AIScribe instance.
NumThreads == 2

Threads == 1..NumThreads

\* ------------------------------------------------------------- vocabulary
Str(s) == [kind |-> "str", val |-> s]

None == [kind |-> "None", val |-> ""]

Raise(e) == [kind |-> "raise", val |-> e]

\* No value yet: the call has not returned / the variable is not assigned.
Unset == [kind |-> "unset", val |-> ""]

\* The input_data values the callers pass:  an empty string, a text, a path.
Inputs == {"", "Hello, how are you?", "example.wav"}

\* The task values the callers pass; "classify" stands for every other string.
TaskValues == {"transcribe", "summarize", "translate", "classify"}

\* The target_language values the callers pass.
Languages == {"fr", "de"}

\* The requests the callers issue: target_language keeps its default "fr"
\* except in translate requests.
Requests ==
    { r \in [input_data : Inputs, task : TaskValues, target_language : Languages] :
        r.target_language # "fr" => r.task = "translate" }

\* Constructor arguments of AIScribe.
SummaryModelNames == {"facebook/bart-large-cnn"}

TranslationModelNames == {"Helsinki-NLP/opus-mt-en-fr", "Helsinki-NLP/opus-mt-tc-big-en-fr"}

VARIABLES
    \* AIScribe instance attributes, set by __init__
    recognizer, summary_model, translation_model,
    \* one process() call per thread
    pc,               \* position of the thread inside process()
    input_data, task, target_language,   \* arguments of the call
    method,           \* the method process() dispatched to ("none" before)
    calls,            \* backend service invocations made by the call, in order
    raised,           \* the exception last raised inside the call ("none")
    printed,          \* messages the call printed
    ret,              \* what the call returned (or raised) to its caller
    \* the example script (__main__)
    mpc, transcribed_text, summary, translation, stdout, steps,
    \* verify_token
    vpc, authorization, id_token, decoded_token, now, vexc, response

scribeVars == <<recognizer, summary_model, translation_model>>

callVars == <<pc, input_data, task, target_language, method, calls, raised, printed, ret>>

mainVars == <<mpc, transcribed_text, summary, translation, stdout, steps>>

authVars == <<vpc, authorization, id_token, decoded_token, now, vexc, response>>

vars == <<scribeVars, callVars, mainVars, authVars>>

\* ------------------------------------------------------------ AIScribe
\* AIScribe.__init__
ScribeInit(sname, tname) ==
    /\ recognizer = "sr.Recognizer"
    /\ summary_model = sname
    /\ translation_model = tname

\* No call in progress on any thread.
CallsIdle ==
    /\ pc = [t \in Threads |-> "idle"]
    /\ input_data = [t \in Threads |-> ""]
    /\ task = [t \in Threads |-> "transcribe"]
    /\ target_language = [t \in Threads |-> "fr"]
    /\ method = [t \in Threads |-> "none"]
    /\ calls = [t \in Threads |-> <<>>]
    /\ raised = [t \in Threads |-> "none"]
    /\ printed = [t \in Threads |-> <<>>]
    /\ ret = [t \in Threads |-> Unset]

\* A caller enters scribe.process(input_data, task, target_language).
Call(t, r) ==
    /\ pc[t] = "idle"
    /\ pc' = [pc EXCEPT ![t] = "process"]
    /\ input_data' = [input_data EXCEPT ![t] = r.input_data]
    /\ task' = [task EXCEPT ![t] = r.task]
    /\ target_language' = [target_language EXCEPT ![t] = r.target_language]
    /\ UNCHANGED <<method, calls, raised, printed, ret>>

\* A faulty variant of Dispatch: the final else branch falls back to transcription.
DispatchFallback(tk) ==
    CASE tk = "summarize" -> "summarize_text"
      [] tk = "translate" -> "translate_text"
      [] OTHER -> "transcribe_audio"

\* The if/elif chain of process(): the method a task string selects.
Dispatch(tk) ==
    CASE tk = "transcribe" -> "transcribe_audio"
      [] tk = "summarize" -> "summarize_text"
      [] tk = "translate" -> "translate_text"
      [] OTHER -> "invalid"

\* process(): dispatch on task; the else branch returns "Invalid task.".
Process(t) ==
    /\ pc[t] = "process"
    /\ method' = [method EXCEPT ![t] = Dispatch(task[t])]
    /\ IF Dispatch(task[t]) = "invalid"
       THEN /\ ret' = [ret EXCEPT ![t] = Str("Invalid task.")]
            /\ pc' = [pc EXCEPT ![t] = "done"]
       ELSE /\ pc' = [pc EXCEPT ![t] = Dispatch(task[t])]
            /\ UNCHANGED ret
    /\ UNCHANGED <<input_data, task, target_language, calls, raised, printed>>

\* What opening a path as an audio file can do: only example.wav may exist,
\* and it may hold something that is no audio.
OpenOutcomes(path) ==
    IF path = "example.wav" THEN {"ok", "FileNotFoundError", "ValueError"}
    ELSE {"FileNotFoundError"}

\* transcribe_audio(), `with sr.AudioFile(path) as source` and
\* recognizer.record(source): the file is opened and read locally.
TranscribeOpen(t) ==
    /\ pc[t] = "transcribe_audio"
    /\ \E o \in OpenOutcomes(input_data[t]) :
         IF o = "ok"
         THEN /\ pc' = [pc EXCEPT ![t] = "recognize"]
              /\ UNCHANGED raised
         ELSE /\ pc' = [pc EXCEPT ![t] = "transcribe_except"]
              /\ raised' = [raised EXCEPT ![t] = o]
    /\ UNCHANGED <<input_data, task, target_language, method, calls, printed, ret>>

\* What the recognition service answers.
RecognizeOutcomes == {"text", "UnknownValueError", "RequestError"}

\* The texts the recognition service may return.
RecognizedTexts == {"hello how are you", "the quick brown fox"}

\* transcribe_audio(), recognizer.recognize_google(audio_data): one request
\* to the recognition service; a text is returned at once.
TranscribeRecognize(t) ==
    /\ pc[t] = "recognize"
    /\ calls' = [calls EXCEPT ![t] = Append(@, [backend |-> "recognizer", provider |-> recognizer])]
    /\ \E o \in RecognizeOutcomes :
         IF o = "text"
         THEN /\ \E x \in RecognizedTexts : ret' = [ret EXCEPT ![t] = Str(x)]
              /\ pc' = [pc EXCEPT ![t] = "done"]
              /\ UNCHANGED raised
         ELSE /\ raised' = [raised EXCEPT ![t] = o]
              /\ pc' = [pc EXCEPT ![t] = "transcribe_except"]
              /\ UNCHANGED ret
    /\ UNCHANGED <<input_data, task, target_language, method, printed>>

\* The message each except clause of transcribe_audio() prints.
ExceptMessage(e) ==
    CASE e = "UnknownValueError" -> "Speech recognition could not understand audio"
      [] e = "RequestError" -> "Could not request results from Google Speech Recognition service"
      [] e = "FileNotFoundError" -> "File not found"

\* The exception types transcribe_audio() catches.
Caught == {"UnknownValueError", "RequestError", "FileNotFoundError"}

\* A faulty variant of TranscribeExcept: a RequestError is retried.
TranscribeExceptRetry(t) ==
    /\ pc[t] = "transcribe_except"
    /\ IF raised[t] = "RequestError"
       THEN /\ pc' = [pc EXCEPT ![t] = "recognize"]
            /\ UNCHANGED <<printed, ret>>
       ELSE /\ pc' = [pc EXCEPT ![t] = "done"]
            /\ IF raised[t] \in Caught
               THEN /\ printed' = [printed EXCEPT ![t] = Append(@, ExceptMessage(raised[t]))]
                    /\ ret' = [ret EXCEPT ![t] = None]
               ELSE /\ ret' = [ret EXCEPT ![t] = Raise(raised[t])]
                    /\ UNCHANGED printed
    /\ UNCHANGED <<input_data, task, target_language, method, calls, raised>>

\* transcribe_audio(), the except clauses: each prints and returns None; an
\* exception of another type leaves the call.
TranscribeExcept(t) ==
    /\ pc[t] = "transcribe_except"
    /\ pc' = [pc EXCEPT ![t] = "done"]
    /\ IF raised[t] \in Caught
       THEN /\ printed' = [printed EXCEPT ![t] = Append(@, ExceptMessage(raised[t]))]
            /\ ret' = [ret EXCEPT ![t] = None]
       ELSE /\ ret' = [ret EXCEPT ![t] = Raise(raised[t])]
            /\ UNCHANGED printed
    /\ UNCHANGED <<input_data, task, target_language, method, calls, raised>>

\* What a transformers pipeline does with a text: a result, or an exception.
PipelineOutcomes == {"ok", "Exception"}

\* The texts the summarization pipeline may return (summary[0]['summary_text']).
Summaries == {"A fox jumps over a dog.", "The text is condensed."}

\* summarize_text(): the summarization pipeline is run on the text as given;
\* nothing catches what it raises.
SummarizeText(t) ==
    /\ pc[t] = "summarize_text"
    /\ calls' = [calls EXCEPT ![t] = Append(@, [backend |-> "summary_model", provider |-> summary_model])]
    /\ pc' = [pc EXCEPT ![t] = "done"]
    /\ \E o \in PipelineOutcomes :
         IF o = "ok"
         THEN /\ \E x \in Summaries : ret' = [ret EXCEPT ![t] = Str(x)]
              /\ UNCHANGED raised
         ELSE /\ raised' = [raised EXCEPT ![t] = o]
              /\ ret' = [ret EXCEPT ![t] = Raise(o)]
    /\ UNCHANGED <<input_data, task, target_language, method, printed>>

\* A faulty variant of SupportedLanguage: German is let through to the model.
SupportedLanguageWide(lang) == lang \in {"fr", "de"}

\* translate_text(), the test target_language == "fr".
SupportedLanguage(lang) == lang = "fr"

\* translate_text(), the branch that runs the translation pipeline.
TranslateRun(t) ==
    /\ calls' = [calls EXCEPT ![t] = Append(@, [backend |-> "translation_model", provider |-> translation_model])]
    /\ \E o \in PipelineOutcomes :
         IF o = "ok"
         THEN /\ ret' = [ret EXCEPT ![t] = Str("Bonjour, comment allez-vous ?")]
              /\ UNCHANGED raised
         ELSE /\ raised' = [raised EXCEPT ![t] = o]
              /\ ret' = [ret EXCEPT ![t] = Raise(o)]
    /\ UNCHANGED printed

\* translate_text(), the else branch: a message and a fixed string.
TranslateReject(t) ==
    /\ printed' = [printed EXCEPT ![t] =
                     Append(@, "Target language not currently supported. Only French is supported")]
    /\ ret' = [ret EXCEPT ![t] = Str("Target language not supported")]
    /\ UNCHANGED <<calls, raised>>

\* A faulty variant of TranslateText: the model for the target language is loaded into
\* the instance before translating.
TranslateTextReload(t) ==
    /\ pc[t] = "translate_text"
    /\ pc' = [pc EXCEPT ![t] = "done"]
    /\ translation_model' = IF target_language[t] = "fr" THEN "Helsinki-NLP/opus-mt-en-fr"
                            ELSE "Helsinki-NLP/opus-mt-en-de"
    /\ calls' = [calls EXCEPT ![t] = Append(@, [backend |-> "translation_model", provider |-> translation_model'])]
    /\ ret' = [ret EXCEPT ![t] = Str("Bonjour, comment allez-vous ?")]
    /\ UNCHANGED <<recognizer, summary_model, raised, printed>>
    /\ UNCHANGED <<input_data, task, target_language, method>>

\* translate_text().
TranslateText(t) ==
    /\ pc[t] = "translate_text"
    /\ pc' = [pc EXCEPT ![t] = "done"]
    /\ IF SupportedLanguage(target_language[t]) THEN TranslateRun(t) ELSE TranslateReject(t)
    /\ UNCHANGED scribeVars
    /\ UNCHANGED <<input_data, task, target_language, method>>

\* The caller takes the result; the thread is free for its next request.
Return(t) ==
    /\ pc[t] = "done"
    /\ pc' = [pc EXCEPT ![t] = "idle"]
    /\ input_data' = [input_data EXCEPT ![t] = ""]
    /\ task' = [task EXCEPT ![t] = "transcribe"]
    /\ target_language' = [target_language EXCEPT ![t] = "fr"]
    /\ method' = [method EXCEPT ![t] = "none"]
    /\ calls' = [calls EXCEPT ![t] = <<>>]
    /\ raised' = [raised EXCEPT ![t] = "none"]
    /\ printed' = [printed EXCEPT ![t] = <<>>]
    /\ ret' = [ret EXCEPT ![t] = Unset]

\* The call of thread t has returned and its caller has not yet taken the result.
Done(t) == pc[t] = "done"

\* ------------------------------------------- script and token check idle
MainIdle ==
    /\ mpc = "off"
    /\ transcribed_text = Unset
    /\ summary = Unset
    /\ translation = Unset
    /\ stdout = <<>>
    /\ steps = <<>>

\* An Authorization header is None or a string; a string is the sequence of
\* its pieces, of which "Bearer " is the separator verify_token splits on.
HeaderNone == [kind |-> "None", val |-> <<>>]

Header(s) == [kind |-> "str", val |-> s]

\* A response of verify_token before it is given.
NoResponse == [kind |-> "unset", status |-> 0, detail |-> ""]

\* No exception in flight.
NoException == [type |-> "none", detail |-> ""]

\* No decoded token.
NoToken == [kind |-> "unset", uid |-> "", exp |-> 0]

AuthIdle ==
    /\ vpc = "off"
    /\ authorization = HeaderNone
    /\ id_token = <<>>
    /\ decoded_token = NoToken
    /\ now = 0
    /\ vexc = NoException
    /\ response = NoResponse

\* ------------------------------------------------- concurrent requests
Init ==
    /\ \E s \in SummaryModelNames, m \in TranslationModelNames : ScribeInit(s, m)
    /\ CallsIdle
    /\ MainIdle
    /\ AuthIdle

DoCall == \E t \in Threads : \E r \in Requests : Call(t, r) /\ UNCHANGED <<scribeVars, mainVars, authVars>>

DoProcess == \E t \in Threads : Process(t) /\ UNCHANGED <<scribeVars, mainVars, authVars>>

DoTranscribeOpen == \E t \in Threads : TranscribeOpen(t) /\ UNCHANGED <<scribeVars, mainVars, authVars>>

DoTranscribeRecognize == \E t \in Threads : TranscribeRecognize(t) /\ UNCHANGED <<scribeVars, mainVars, authVars>>

DoTranscribeExcept == \E t \in Threads : TranscribeExcept(t) /\ UNCHANGED <<scribeVars, mainVars, authVars>>

DoSummarizeText == \E t \in Threads : SummarizeText(t) /\ UNCHANGED <<scribeVars, mainVars, authVars>>

DoTranslateText == \E t \in Threads : TranslateText(t) /\ UNCHANGED <<mainVars, authVars>>

DoReturn == \E t \in Threads : Return(t) /\ UNCHANGED <<scribeVars, mainVars, authVars>>

Next ==
    \/ DoCall
    \/ DoProcess
    \/ DoTranscribeOpen
    \/ DoTranscribeRecognize
    \/ DoTranscribeExcept
    \/ DoSummarizeText
    \/ DoTranslateText
    \/ DoReturn

Spec == Init /\ [][Next]_vars

\* ------------------------------------------------------ example script
\* The thread the script runs on.
MainThread == 1

\* audio_file, sample_text and the text of the translation example.
MainSteps ==
    <<[input_data |-> "example.wav", task |-> "transcribe", target_language |-> "fr"],
      [input_data |-> "The quick brown fox jumps over the lazy dog. ...",
       task |-> "summarize", target_language |-> "fr"],
      [input_data |-> "Hello, how are you?", task |-> "translate", target_language |-> "fr"]>>

\* Python truth of a value: None and the empty string are false.
Truthy(v) == v.kind = "str" /\ v.val # ""

\* scribe = AIScribe(): the default model names.
InitMain ==
    /\ ScribeInit("facebook/bart-large-cnn", "Helsinki-NLP/opus-mt-en-fr")
    /\ CallsIdle
    /\ mpc = "call1"
    /\ transcribed_text = Unset
    /\ summary = Unset
    /\ translation = Unset
    /\ stdout = <<>>
    /\ steps = <<>>
    /\ AuthIdle

\* The script enters its k-th scribe.process(...) call.
MainCall(k) ==
    /\ mpc = [i \in 1..3 |-> <<"call1", "call2", "call3">>[i]][k]
    /\ Call(MainThread, MainSteps[k])
    /\ mpc' = <<"wait1", "wait2", "wait3">>[k]
    /\ UNCHANGED <<transcribed_text, summary, translation, stdout, steps>>

\* The k-th call is over: what it printed is on the script's standard output;
\* its value is assigned to the script's variable, or its exception, which the
\* script does not catch, ends the script.
MainAssign(k) ==
    /\ mpc = <<"wait1", "wait2", "wait3">>[k]
    /\ Done(MainThread)
    /\ steps' = Append(steps, [task |-> task[MainThread], result |-> ret[MainThread]])
    /\ IF ret[MainThread].kind = "raise"
       THEN /\ mpc' = "crash"
            /\ UNCHANGED <<transcribed_text, summary, translation>>
       ELSE /\ mpc' = <<"print1", "print2", "print3">>[k]
            /\ transcribed_text' = IF k = 1 THEN ret[MainThread] ELSE transcribed_text
            /\ summary' = IF k = 2 THEN ret[MainThread] ELSE summary
            /\ translation' = IF k = 3 THEN ret[MainThread] ELSE translation
    /\ Return(MainThread)
    /\ stdout' = stdout \o [i \in 1..Len(printed[MainThread]) |-> <<printed[MainThread][i]>>]

\* if transcribed_text: print("Transcribed Text:", transcribed_text); the
\* script goes on to the summary whatever the transcription returned.
MainPrintTranscribed ==
    /\ mpc = "print1"
    /\ stdout' = IF Truthy(transcribed_text)
                 THEN Append(stdout, <<"Transcribed Text:", transcribed_text>>)
                 ELSE stdout
    /\ mpc' = "call2"
    /\ UNCHANGED <<transcribed_text, summary, translation, steps, callVars>>

\* print("\nSummary:", summary)
MainPrintSummary ==
    /\ mpc = "print2"
    /\ stdout' = Append(stdout, <<"Summary:", summary>>)
    /\ mpc' = "call3"
    /\ UNCHANGED <<transcribed_text, summary, translation, steps, callVars>>

\* print("\nTranslation:", translation), the last line of the script.
MainPrintTranslation ==
    /\ mpc = "print3"
    /\ stdout' = Append(stdout, <<"Translation:", translation>>)
    /\ mpc' = "exit"
    /\ UNCHANGED <<transcribed_text, summary, translation, steps, callVars>>

DoMainCall == \E k \in 1..3 : MainCall(k) /\ UNCHANGED <<scribeVars, authVars>>

DoMainAssign == \E k \in 1..3 : MainAssign(k) /\ UNCHANGED <<scribeVars, authVars>>

DoMainPrintTranscribed == MainPrintTranscribed /\ UNCHANGED <<scribeVars, authVars>>

DoMainPrintSummary == MainPrintSummary /\ UNCHANGED <<scribeVars, authVars>>

DoMainPrintTranslation == MainPrintTranslation /\ UNCHANGED <<scribeVars, authVars>>

NextMain ==
    \/ DoMainCall
    \/ DoMainAssign
    \/ DoMainPrintTranscribed
    \/ DoMainPrintSummary
    \/ DoMainPrintTranslation
    \/ DoProcess
    \/ DoTranscribeOpen
    \/ DoTranscribeRecognize
    \/ DoTranscribeExcept
    \/ DoSummarizeText
    \/ DoTranslateText

SpecMain == InitMain /\ [][NextMain]_vars

\* A step of the script failed: process() returned None or raised.
StepFailed(st) == st.result.kind \in {"None", "raise"}

\* The lines of standard output that show a result of a step.
IsResultLine(l) == l[1] \in {"Transcribed Text:", "Summary:", "Translation:"}

ResultLines == SelectSeq(stdout, IsResultLine)

\* The script is over.
MainOver == mpc \in {"exit", "crash"}

\* C5 (as claimed): when the script is over and step i was the first to fail,
\* i steps were invoked (none after step i) and exactly the i-1 earlier results
\* were printed.
C5_FailFast ==
    MainOver =>
        \A i \in 1..Len(steps) :
            (StepFailed(steps[i]) /\ \A j \in 1..(i-1) : ~StepFailed(steps[j])) =>
                /\ Len(steps) = i
                /\ Len(ResultLines) = i - 1

\* ---------------------------------------------------------- verify_token
\* Largest timestamp (seconds) of the clock and of a token's exp claim.
MaxTime == 2

\* The Authorization headers the callers send.
Headers ==
    {HeaderNone, Header(<<>>), Header(<<"good">>), Header(<<"Basic ", "good">>),
     Header(<<"Bearer ">>), Header(<<"Bearer ", "good">>), Header(<<"Bearer ", "forged">>),
     Header(<<"Bearer ", "good", "Bearer ", "x">>)}

\* The exp claim of a decoded token: a timestamp, or NoExp when the key is
\* missing (decoded_token.get("exp") is then None).
NoExp == -1

ExpValues == {NoExp} \cup 0..MaxTime

RECURSIVE Split(_, _)
\* str.split(sep): the pieces between the occurrences of the separator.
Split(s, sep) ==
    IF s = <<>> THEN << <<>> >>
    ELSE LET rest == Split(Tail(s), sep) IN
         IF Head(s) = sep THEN << <<>> >> \o rest
         ELSE << <<Head(s)>> \o rest[1] >> \o Tail(rest)

\* raise HTTPException(status_code, detail) reaching the caller.
HTTPException(status, detail) == [kind |-> "raise", status |-> status, detail |-> detail]

\* A request arrives with its Authorization header; the clock reads `now`.
InitAuth ==
    /\ ScribeInit("facebook/bart-large-cnn", "Helsinki-NLP/opus-mt-en-fr")
    /\ CallsIdle
    /\ MainIdle
    /\ vpc = "entry"
    /\ authorization \in Headers
    /\ id_token = <<>>
    /\ decoded_token = NoToken
    /\ now \in 0..MaxTime
    /\ vexc = NoException
    /\ response = NoResponse

\* if not authorization: raise HTTPException(401, "Authorization token is missing")
VerifyEntry ==
    /\ vpc = "entry"
    /\ IF authorization.kind = "None" \/ authorization.val = <<>>
       THEN /\ response' = HTTPException(401, "Authorization token is missing")
            /\ vpc' = "done"
       ELSE /\ vpc' = "split"
            /\ UNCHANGED response
    /\ UNCHANGED <<authorization, id_token, decoded_token, now, vexc>>

\* id_token = authorization.split("Bearer ")[1], inside the try block.
VerifySplit ==
    /\ vpc = "split"
    /\ LET parts == Split(authorization.val, "Bearer ") IN
         IF Len(parts) < 2
         THEN /\ vexc' = [type |-> "IndexError", detail |-> ""]
              /\ vpc' = "except"
              /\ UNCHANGED id_token
         ELSE /\ id_token' = parts[2]
              /\ vpc' = "verify"
              /\ UNCHANGED vexc
    /\ UNCHANGED <<authorization, decoded_token, now, response>>

\* decoded_token = auth.verify_id_token(id_token): Firebase rejects a token
\* it did not sign, and returns the claims of one it accepts.
VerifyIdToken ==
    /\ vpc = "verify"
    /\ IF id_token = <<"good">>
       THEN /\ \E e \in ExpValues :
                 decoded_token' = [kind |-> "dict", uid |-> "user-1", exp |-> e]
            /\ vpc' = "check_exp"
            /\ UNCHANGED vexc
       ELSE /\ vexc' = [type |-> "InvalidIdTokenError", detail |-> ""]
            /\ vpc' = "except"
            /\ UNCHANGED decoded_token
    /\ UNCHANGED <<authorization, id_token, now, response>>

\* exp_time and datetime.utcfromtimestamp(exp_time) < datetime.utcnow():
\* None and 0 are false; both sides are UTC times, compared in seconds.
Expired(tok, clock) == tok.exp # NoExp /\ tok.exp # 0 /\ tok.exp < clock

\* The expiry check: raise HTTPException(401, "Session expired. ...") inside
\* the try block, or go on to the return.
VerifyCheckExp ==
    /\ vpc = "check_exp"
    /\ IF Expired(decoded_token, now)
       THEN /\ vexc' = [type |-> "HTTPException", detail |-> "Session expired. Please log in again."]
            /\ vpc' = "except"
       ELSE /\ vpc' = "return"
            /\ UNCHANGED vexc
    /\ UNCHANGED <<authorization, id_token, decoded_token, now, response>>

\* return decoded_token["uid"]
VerifyReturn ==
    /\ vpc = "return"
    /\ response' = [kind |-> "return", status |-> 200, detail |-> decoded_token.uid]
    /\ vpc' = "done"
    /\ UNCHANGED <<authorization, id_token, decoded_token, now, vexc>>

\* except Exception: raise HTTPException(401, "Invalid authentication token");
\* HTTPException is an Exception, so the clause catches it too.
VerifyExcept ==
    /\ vpc = "except"
    /\ response' = HTTPException(401, "Invalid authentication token")
    /\ vpc' = "done"
    /\ UNCHANGED <<authorization, id_token, decoded_token, now, vexc>>

DoVerifyEntry == VerifyEntry /\ UNCHANGED <<scribeVars, callVars, mainVars>>

DoVerifySplit == VerifySplit /\ UNCHANGED <<scribeVars, callVars, mainVars>>

DoVerifyIdToken == VerifyIdToken /\ UNCHANGED <<scribeVars, callVars, mainVars>>

DoVerifyCheckExp == VerifyCheckExp /\ UNCHANGED <<scribeVars, callVars, mainVars>>

DoVerifyReturn == VerifyReturn /\ UNCHANGED <<scribeVars, callVars, mainVars>>

DoVerifyExcept == VerifyExcept /\ UNCHANGED <<scribeVars, callVars, mainVars>>

NextAuth ==
    \/ DoVerifyEntry
    \/ DoVerifySplit
    \/ DoVerifyIdToken
    \/ DoVerifyCheckExp
    \/ DoVerifyReturn
    \/ DoVerifyExcept

SpecAuth == InitAuth /\ [][NextAuth]_vars

\* C10 (as claimed): for a token that passed auth.verify_id_token and whose
\* exp is in the past, the 401 that reaches the caller carries the detail
\* "Session expired. Please log in again.".
C10_ExpiredDetail ==
    (/\ vpc = "done"
     /\ decoded_token.kind = "dict"
     /\ decoded_token.exp # NoExp /\ decoded_token.exp # 0
     /\ decoded_token.exp < now)
    => response = HTTPException(401, "Session expired. Please log in again.")

\* ------------------------------------------------------ claim vocabulary
\* The task strings process() has a branch for.
RegisteredTasks == {"transcribe", "summarize", "translate"}

\* A result a caller can tell from a successful output by the result alone:
\* an exception.  A string or None is what a successful call may return too.
TypedFailure(v) == v.kind = "raise"

\* The call of thread t hit a failure condition: an unknown task, an
\* unsupported language, or an exception raised by the file or by a backend.
FailureCondition(t) ==
    \/ task[t] \notin RegisteredTasks
    \/ task[t] = "translate" /\ target_language[t] # "fr"
    \/ raised[t] # "none"

\* The call of thread t invoked no backend service.
NoBackendInvoked(t) == calls[t] = <<>>

\* The three failure causes of a transcription.
TranscribeCauses == {"UnknownValueError", "FileNotFoundError", "RequestError"}

\* The modality a task expects and the modality of an input.
ExpectedModality(tk) == IF tk = "transcribe" THEN "audio" ELSE "text"

Modality(inp) == IF inp = "example.wav" THEN "audio" ELSE "text"

C2_FailureAlwaysTyped ==
    \A t \in Threads : (Done(t) /\ FailureCondition(t)) => TypedFailure(ret[t])

\* C3 (as claimed): two transcriptions that fail for different causes
\* (unintelligible speech, file that cannot be opened, service request failure)
\* end in different results, none of them a crash or a success value.
C3_DistinctTranscribeFailures ==
    \A t1, t2 \in Threads :
        (/\ Done(t1) /\ Done(t2)
         /\ task[t1] = "transcribe" /\ task[t2] = "transcribe"
         /\ raised[t1] \in TranscribeCauses /\ raised[t2] \in TranscribeCauses
         /\ raised[t1] # raised[t2])
        => ret[t1] # ret[t2]

\* C4: process() resolves a method exactly for the tasks "transcribe",
\* "summarize" and "translate" (each to its own method); for every other task
\* the call ends at once with "Invalid task." and no backend is invoked.
C4_ResolveIffRegistered ==
    \A t \in Threads :
        pc[t] \notin {"idle", "process"} =>
            /\ (method[t] # "invalid") <=> (task[t] \in RegisteredTasks)
            /\ task[t] = "transcribe" => method[t] = "transcribe_audio"
            /\ task[t] = "summarize" => method[t] = "summarize_text"
            /\ task[t] = "translate" => method[t] = "translate_text"
            /\ task[t] \notin RegisteredTasks =>
                 /\ Done(t)
                 /\ ret[t] = Str("Invalid task.")
                 /\ NoBackendInvoked(t)

C4_Witness ==
    \E t1, t2 \in Threads :
        /\ Done(t1) /\ task[t1] = "classify" /\ method[t1] = "invalid"
        /\ Done(t2) /\ task[t2] = "summarize" /\ method[t2] = "summarize_text"

\* C6 (as claimed): summarizing the empty text fails as too short: no summary
\* is returned and the failure is not one raised by the backend.
C6_EmptySummarizeTooShort ==
    \A t \in Threads :
        (Done(t) /\ task[t] = "summarize" /\ input_data[t] = "") =>
            /\ ret[t].kind # "str"
            /\ raised[t] = "none"
            /\ NoBackendInvoked(t)

\* C7 (as claimed): a request whose input is empty or of the wrong modality
\* for its task ends in a failure with no backend invoked.
C7_InvalidInputRejected ==
    \A t \in Threads :
        (/\ task[t] \in RegisteredTasks
         /\ pc[t] # "idle"
         /\ (input_data[t] = "" \/ Modality(input_data[t]) # ExpectedModality(task[t])))
        => /\ NoBackendInvoked(t)
           /\ Done(t) => ret[t].kind \notin {"str", "None"}

\* C8: a process() call invokes at most one backend service, at most once;
\* once a backend has failed the call only handles the failure and ends, and it
\* ends in the failure outcome (None, or the exception), not in a text.
C8_NoRetry ==
    \A t \in Threads :
        /\ Len(calls[t]) <= 1
        /\ (calls[t] # <<>> /\ raised[t] # "none") =>
              /\ pc[t] \in {"transcribe_except", "done"}
              /\ Done(t) => ret[t] \in {None, Raise(raised[t])}

C8_Witness ==
    \E t \in Threads :
        Done(t) /\ raised[t] = "RequestError" /\ Len(calls[t]) = 1 /\ ret[t] = None

\* The providers of the instance.
Providers == [recognizer |-> recognizer, summary_model |-> summary_model,
              translation_model |-> translation_model]

\* C9: no step of any call changes the instance's providers, and every
\* backend invocation of every thread, however the calls interleave, went to
\* the provider the instance holds for that backend.
C9_ProvidersFixed ==
    /\ [][Providers' = Providers]_vars
    /\ [](\A t \in Threads : \A i \in 1..Len(calls[t]) :
            calls[t][i].provider = Providers[calls[t][i].backend])

C9_Witness ==
    \E t1, t2 \in Threads :
        /\ t1 # t2
        /\ Done(t1) /\ task[t1] = "translate" /\ Len(calls[t1]) = 1
        /\ pc[t2] = "translate_text" /\ target_language[t2] = "fr"

====
